---- MODULE Spec2Model ----
(***************************************************************************)
(* useApolloQuery: the Vue composable that adapts an Apollo Client          *)
(* ObservableQuery (client.watchQuery + subscribe) to three reactive refs   *)
(* (result, loading, error) and a refetch() operation.                      *)
(*                                                                          *)
(* The model follows the Apollo Client 4 revision of the composable         *)
(* (src/unnamed/part_001, lines 68-177).  The earlier revision              *)
(* (src/src/composables/useApolloQuery.ts) differs in three places: it      *)
(* always passes pollInterval, it copies queryResult.data without looking   *)
(* at dataState, and its watcher has no undefined guard.                    *)
(*                                                                          *)
(* JavaScript values are modelled as records so that any two of them can    *)
(* be compared: undefined is Undef, a number n is Num(n), a string s is     *)
(* Str(s), and an object is the record of its own keys.                     *)
(***************************************************************************)
EXTENDS Integers, Sequences, FiniteSets, TLC

VARIABLES
    options,          \* the options object the caller passed (its ref may change)
    result,           \* ref: result.value
    loading,          \* ref: loading.value
    error,            \* ref: error.value
    observableQuery,  \* handle of the ObservableQuery (0 = null)
    subscription,     \* handle of the rxjs Subscription (0 = null)
    watcher,          \* "none" | "active" | "stopped": the watch() on the variables
    watcherPending,   \* a watcher job is queued in Vue's scheduler
    unmounted,        \* the component's onUnmounted hooks have run
    calls,            \* every call the adapter made on the client, in order
    open,             \* subscriptions that still receive notifications
    polling,          \* observable queries whose poll timer is running
    queryVariables,   \* the variables each observable query currently holds
    refetches,        \* one record per refetch() call
    dropped,          \* the client produced a notification nobody was subscribed to
    pollFetches,      \* fetches started by a poll timer
    varChanges,       \* writes the caller made to the variables ref
    last,             \* the last notification handed to a callback
    pc,               \* how far the running callback has got (0 = none running)
    rendered          \* what the component's render last read from the refs

snapshot == <<result, loading, error>>
adapter == <<observableQuery, subscription>>
reactive == <<options, watcher, watcherPending, varChanges>>
client == <<calls, open, polling, queryVariables>>
delivery == <<last, pc, rendered>>
vars == <<options, result, loading, error, observableQuery, subscription, watcher,
          watcherPending, unmounted, calls, open, polling, queryVariables,
          refetches, dropped, pollFetches, varChanges, last, pc, rendered>>

(* ------------------------------------------------------------ bounds *)
MaxRefetch == 2
MaxVarChanges == 2
MaxPollTicks == 1
\* refetch() calls and writes to the variables ref explored together with
\* everything else
MaxLifecycleRefetch == 1
MaxLifecycleVarChanges == 1

(* ------------------------------------------------------- JS values *)
Undef == [undefined |-> TRUE]
Num(n) == [number |-> n]
Str(s) == [string |-> s]

\* `'value' in obj`
HasKey(obj, key) == key \in DOMAIN obj

\* ref(v) / computed(() => v): an object with a `value` property
Ref(v) == [isRef |-> TRUE, value |-> v]

\* the caller passed a ref / computed as options.variables
IsReactiveReference(v) == v # Undef /\ HasKey(v, "isRef")

\* the caller passed a plain mapping as options.variables
IsStaticMapping(v) == v # Undef /\ ~HasKey(v, "isRef")

VarsA == [repo |-> Str("a")]
VarsB == [repo |-> Str("b")]
\* a static mapping whose only key is called `value`
VarsValueKey == [value |-> [repo |-> Str("a")]]

FetchPolicies ==
    {"cache-first", "cache-only", "network-only", "no-cache", "cache-and-network"}

PollIntervals == {Num(0), Num(5)}

VariablesOptions == {Undef, VarsA, VarsValueKey, Ref(VarsA)}

UseQueryOptions ==
    [variables : VariablesOptions,
     pollInterval : {Undef} \cup PollIntervals,
     fetchPolicy : {Undef} \cup {Str(p) : p \in FetchPolicies}]

Data1 == [GetLeaderboard |-> <<"tien">>]
Data2 == [GetLeaderboard |-> <<"tien", "hoai">>]
PartialData == [GetLeaderboard |-> <<"?">>]
\* a complete answer for a repository without commits
NoCommits == [GetLeaderboard |-> <<>>]
Err1 == [message |-> "graphql error"]
ErrT == [message |-> "network error"]

\* what ObservableQuery hands to `next`: data is tied to dataState as in
\* Apollo Client 4's ObservableQuery.Result
DataOf(dataState) ==
    CASE dataState = "empty" -> {Undef}
      [] dataState = "partial" -> {PartialData}
      [] dataState = "streaming" -> {Data1}
      [] dataState = "complete" -> {Data1, Data2}

DataStates == {"empty", "partial", "streaming", "complete"}

QueryResults ==
    UNION {[loading : BOOLEAN, dataState : {s}, data : DataOf(s),
            error : {Undef, Err1}] : s \in DataStates}

\* the result that completes a fetch is no longer loading
FetchResults == {q \in QueryResults : ~q.loading}

TerminalErrors == {ErrT}

NoDelivery == [kind |-> "none"]

\* the component has not rendered yet
NoRender == [kind |-> "none"]

(* ------------------------------------------- the client's side of the API *)
Call(op, on, arg) == [op |-> op, on |-> on, arg |-> arg]

Count(log, op) == Cardinality({i \in DOMAIN log : log[i].op = op})

\* ObservableQuery polls when it was created with a positive pollInterval
StartsPolling(request) ==
    /\ HasKey(request, "pollInterval")
    /\ HasKey(request.pollInterval, "number")
    /\ request.pollInterval.number > 0

(* ------------------------------------------------------- construction *)
getVariables(opts) ==
    IF opts.variables = Undef
    THEN Undef
    ELSE IF HasKey(opts.variables, "value")
         THEN opts.variables.value
         ELSE opts.variables

\* variant: the caller's policy is dropped and the default always used
fetchPolicy_AlwaysDefault(opts) ==
    Str("cache-first")

fetchPolicy(opts) ==
    IF opts.fetchPolicy = Undef THEN Str("cache-first") ELSE opts.fetchPolicy

\* variant: one literal with pollInterval always in it, as in the earlier
\* revision (src/src/composables/useApolloQuery.ts:37-42)
WatchQueryOptions_AlwaysPollInterval(opts) ==
    [query |-> Str("GetLeaderboard"),
     variables |-> getVariables(opts),
     fetchPolicy |-> fetchPolicy(opts),
     pollInterval |-> opts.pollInterval]

\* the object literal handed to client.watchQuery
WatchQueryOptions(opts) ==
    IF opts.pollInterval # Undef
    THEN [query |-> Str("GetLeaderboard"),
          variables |-> getVariables(opts),
          fetchPolicy |-> fetchPolicy(opts),
          pollInterval |-> opts.pollInterval]
    ELSE [query |-> Str("GetLeaderboard"),
          variables |-> getVariables(opts),
          fetchPolicy |-> fetchPolicy(opts)]

\* watch() is installed only when the variables option looks like a ref
WatcherInstalled(opts) ==
    /\ opts.variables # Undef
    /\ HasKey(opts.variables, "value")

\* variant: the loading ref starts at false
Construction_NotLoading(opts) ==
    [result |-> Undef,
     loading |-> FALSE,
     error |-> Undef,
     observableQuery |-> 1,
     subscription |-> 1,
     calls |-> <<Call("watchQuery", 0, WatchQueryOptions(opts)),
                 Call("subscribe", 1, Undef)>>,
     open |-> {1},
     polling |-> IF StartsPolling(WatchQueryOptions(opts)) THEN {1} ELSE {},
     queryVariables |-> <<WatchQueryOptions(opts).variables>>,
     watcher |-> IF WatcherInstalled(opts) THEN "active" ELSE "none"]

\* useApolloQuery(client, query, options) up to its return: the refs, the
\* watchQuery and subscribe calls and the watcher it leaves behind
Construction(opts) ==
    [result |-> Undef,
     loading |-> TRUE,
     error |-> Undef,
     observableQuery |-> 1,
     subscription |-> 1,
     calls |-> <<Call("watchQuery", 0, WatchQueryOptions(opts)),
                 Call("subscribe", 1, Undef)>>,
     open |-> {1},
     polling |-> IF StartsPolling(WatchQueryOptions(opts)) THEN {1} ELSE {},
     queryVariables |-> <<WatchQueryOptions(opts).variables>>,
     watcher |-> IF WatcherInstalled(opts) THEN "active" ELSE "none"]

\* the options the lifecycle is explored with: every shape of `variables`,
\* with and without polling.  Nothing after construction reads fetchPolicy,
\* and a poll interval of 0 starts no timer, so the other combinations are
\* left to SpecConstruct
LifecycleOptions ==
    {o \in UseQueryOptions :
        /\ o.fetchPolicy = Str("cache-and-network")
        /\ o.pollInterval \in {Undef, Num(5)}}

\* the state right after useApolloQuery returned
Init ==
    /\ options \in LifecycleOptions
    /\ result = Construction(options).result
    /\ loading = Construction(options).loading
    /\ error = Construction(options).error
    /\ observableQuery = Construction(options).observableQuery
    /\ subscription = Construction(options).subscription
    /\ calls = Construction(options).calls
    /\ open = Construction(options).open
    /\ polling = Construction(options).polling
    /\ queryVariables = Construction(options).queryVariables
    /\ watcher = Construction(options).watcher
    /\ watcherPending = FALSE
    /\ unmounted = FALSE
    /\ refetches = <<>>
    /\ dropped = FALSE
    /\ pollFetches = 0
    /\ varChanges = 0
    /\ last = NoDelivery
    /\ pc = 0
    /\ rendered = NoRender

\* before the call: nothing exists yet
InitCall ==
    /\ options \in UseQueryOptions
    /\ result = Undef
    /\ loading = FALSE
    /\ error = Undef
    /\ observableQuery = 0
    /\ subscription = 0
    /\ calls = <<>>
    /\ open = {}
    /\ polling = {}
    /\ queryVariables = <<>>
    /\ watcher = "none"
    /\ watcherPending = FALSE
    /\ unmounted = FALSE
    /\ refetches = <<>>
    /\ dropped = FALSE
    /\ pollFetches = 0
    /\ varChanges = 0
    /\ last = NoDelivery
    /\ pc = 0
    /\ rendered = NoRender

\* the call itself, as one step
Construct ==
    /\ calls = <<>>
    /\ result' = Construction(options).result
    /\ loading' = Construction(options).loading
    /\ error' = Construction(options).error
    /\ observableQuery' = Construction(options).observableQuery
    /\ subscription' = Construction(options).subscription
    /\ calls' = Construction(options).calls
    /\ open' = Construction(options).open
    /\ polling' = Construction(options).polling
    /\ queryVariables' = Construction(options).queryVariables
    /\ watcher' = Construction(options).watcher
    /\ UNCHANGED <<options, watcherPending, varChanges, unmounted, refetches,
                   dropped, pollFetches, delivery>>

(* ------------------------------------------- the subscription's callbacks *)
\* variant: data copied whatever the dataState, as in the earlier revision
\* (src/src/composables/useApolloQuery.ts:46-50)
SubscribeNext_AnyDataState(queryResult) ==
    /\ loading' = queryResult.loading
    /\ result' = queryResult.data
    /\ error' = queryResult.error

\* variant: data is withheld as long as the emission is still loading
SubscribeNext_NoDataWhileLoading(queryResult) ==
    /\ loading' = queryResult.loading
    /\ result' = IF ~queryResult.loading
                     /\ (queryResult.dataState = "complete"
                         \/ queryResult.dataState = "streaming")
                  THEN queryResult.data
                  ELSE Undef
    /\ error' = queryResult.error

\* variant: an error once shown is kept until another error replaces it
SubscribeNext_StickyError(queryResult) ==
    /\ loading' = queryResult.loading
    /\ result' = IF queryResult.dataState = "complete"
                     \/ queryResult.dataState = "streaming"
                  THEN queryResult.data
                  ELSE Undef
    /\ error' = IF queryResult.error # Undef THEN queryResult.error ELSE error

SubscribeNext(queryResult) ==
    /\ loading' = queryResult.loading
    /\ result' = IF queryResult.dataState = "complete"
                     \/ queryResult.dataState = "streaming"
                  THEN queryResult.data
                  ELSE Undef
    /\ error' = queryResult.error

\* variant: the error is stored but loading is left as it was
SubscribeError_LoadingKept(err) ==
    /\ loading' = loading
    /\ error' = err
    /\ result' = result

\* variant: the error callback also empties the data
SubscribeError_ClearsResult(err) ==
    /\ loading' = FALSE
    /\ error' = err
    /\ result' = Undef

SubscribeError(err) ==
    /\ loading' = FALSE
    /\ error' = err
    /\ result' = result

\* variant: while a refetch() promise is unsettled the adapter is busy and the
\* notification is lost
ClientNext_BlockedByRefetch(queryResult) ==
    /\ IF open # {} /\ \A i \in DOMAIN refetches : refetches[i].promise # "pending"
       THEN /\ SubscribeNext(queryResult)
            /\ last' = [kind |-> "next", value |-> queryResult]
            /\ UNCHANGED <<pc, rendered, dropped>>
       ELSE /\ dropped' = TRUE
            /\ UNCHANGED <<snapshot, delivery>>
    /\ UNCHANGED <<adapter, reactive, client, unmounted, refetches, pollFetches>>

\* the client produces a result (cache read, network response, poll result,
\* cache update); rxjs hands it to `next` of every subscriber still open
ClientNext(queryResult) ==
    /\ IF open # {}
       THEN /\ SubscribeNext(queryResult)
            /\ last' = [kind |-> "next", value |-> queryResult]
            /\ UNCHANGED <<pc, rendered, dropped>>
       ELSE /\ dropped' = TRUE
            /\ UNCHANGED <<snapshot, delivery>>
    /\ UNCHANGED <<adapter, reactive, client, unmounted, refetches, pollFetches>>

\* variant: the error callback answers the error with a refetch
ClientError_Retry(err) ==
    /\ IF open # {}
       THEN /\ SubscribeError(err)
            /\ last' = [kind |-> "error", value |-> err]
            /\ calls' = Append(calls, Call("refetch", observableQuery, Undef))
            /\ UNCHANGED <<pc, rendered, dropped>>
       ELSE /\ dropped' = TRUE
            /\ UNCHANGED <<snapshot, delivery, calls>>
    /\ open' = {}
    /\ UNCHANGED <<adapter, reactive, polling, queryVariables, unmounted,
                   refetches, pollFetches>>

\* the observable terminates with an error: `error` of every open subscriber
\* runs, and rxjs closes those subscribers
ClientError(err) ==
    /\ IF open # {}
       THEN /\ SubscribeError(err)
            /\ last' = [kind |-> "error", value |-> err]
            /\ UNCHANGED <<pc, rendered, dropped>>
       ELSE /\ dropped' = TRUE
            /\ UNCHANGED <<snapshot, delivery>>
    /\ open' = {}
    /\ UNCHANGED <<adapter, reactive, calls, polling, queryVariables, unmounted,
                   refetches, pollFetches>>

(* ------------------------------------------------------------- refetch *)
\* variant: refetch() raises the loading flag itself before it fetches
Refetch_SetsLoading ==
    /\ Len(refetches) < MaxRefetch
    /\ IF observableQuery # 0
       THEN /\ calls' = Append(calls, Call("refetch", observableQuery, Undef))
            /\ refetches' = Append(refetches,
                   [fetch |-> "pending", promise |-> "pending",
                    delivered |-> FALSE])
       ELSE /\ calls' = calls
            /\ refetches' = Append(refetches,
                   [fetch |-> "none", promise |-> "resolved",
                    delivered |-> FALSE])
    /\ loading' = TRUE
    /\ UNCHANGED <<result, error, adapter, reactive, open, polling,
                   queryVariables, unmounted, dropped, pollFetches, delivery>>

\* variant: refetch() pushes the current variables before it fetches
Refetch_WithVariables ==
    /\ Len(refetches) < MaxRefetch
    /\ IF observableQuery # 0
       THEN /\ calls' = calls \o
                   <<Call("setVariables", observableQuery, getVariables(options)),
                     Call("refetch", observableQuery, Undef)>>
            /\ refetches' = Append(refetches,
                   [fetch |-> "pending", promise |-> "pending",
                    delivered |-> FALSE])
       ELSE /\ calls' = calls
            /\ refetches' = Append(refetches,
                   [fetch |-> "none", promise |-> "resolved",
                    delivered |-> FALSE])
    /\ UNCHANGED <<snapshot, adapter, reactive, open, polling, queryVariables,
                   unmounted, dropped, pollFetches, delivery>>

\* refetch(): the async function starts observableQuery.refetch() and parks on
\* the await; with a null handle it would complete without a fetch
Refetch ==
    /\ Len(refetches) < MaxRefetch
    /\ IF observableQuery # 0
       THEN /\ calls' = Append(calls, Call("refetch", observableQuery, Undef))
            /\ refetches' = Append(refetches,
                   [fetch |-> "pending", promise |-> "pending",
                    delivered |-> FALSE])
       ELSE /\ calls' = calls
            /\ refetches' = Append(refetches,
                   [fetch |-> "none", promise |-> "resolved",
                    delivered |-> FALSE])
    /\ UNCHANGED <<snapshot, adapter, reactive, open, polling, queryVariables,
                   unmounted, dropped, pollFetches, delivery>>

\* variant: the await sits in a try / catch that swallows the failure
RefetchResume_CatchesFailure(i) ==
    /\ refetches[i].promise = "pending"
    /\ refetches[i].fetch \in {"resolved", "rejected"}
    /\ refetches' = [refetches EXCEPT ![i].promise = "resolved"]
    /\ UNCHANGED <<snapshot, adapter, reactive, client, unmounted, dropped,
                   pollFetches, delivery>>

\* the continuation after `await observableQuery.refetch()`: the promise the
\* adapter returned settles the way the awaited promise did
RefetchResume(i) ==
    /\ refetches[i].promise = "pending"
    /\ refetches[i].fetch \in {"resolved", "rejected"}
    /\ refetches' = [refetches EXCEPT ![i].promise = refetches[i].fetch]
    /\ UNCHANGED <<snapshot, adapter, reactive, client, unmounted, dropped,
                   pollFetches, delivery>>

\* the client completes the fetch a refetch started: the result goes through
\* `next` of the open subscribers, then the promise of
\* observableQuery.refetch() resolves
FetchSucceeds(i, queryResult) ==
    /\ refetches[i].fetch = "pending"
    /\ IF open # {}
       THEN /\ SubscribeNext(queryResult)
            /\ last' = [kind |-> "next", value |-> queryResult]
            /\ UNCHANGED <<pc, rendered, dropped>>
       ELSE /\ dropped' = TRUE
            /\ UNCHANGED <<snapshot, delivery>>
    /\ refetches' = [refetches EXCEPT ![i].fetch = "resolved",
                                      ![i].delivered = (open # {})]
    /\ UNCHANGED <<adapter, reactive, client, unmounted, pollFetches>>

\* the fetch fails (or is aborted): the promise of observableQuery.refetch()
\* rejects
FetchFails(i) ==
    /\ refetches[i].fetch = "pending"
    /\ refetches' = [refetches EXCEPT ![i].fetch = "rejected"]
    /\ UNCHANGED <<snapshot, adapter, reactive, client, unmounted, dropped,
                   pollFetches, delivery>>

(* ------------------------------------------------- the variables watcher *)
\* the caller writes the ref it passed as options.variables; Vue queues the
\* watcher's job when the watcher is still active
ChangeVariables(v) ==
    /\ options.variables # Undef
    /\ HasKey(options.variables, "isRef")
    /\ v # options.variables.value
    /\ varChanges < MaxVarChanges
    /\ varChanges' = varChanges + 1
    /\ options' = [options EXCEPT !.variables = Ref(v)]
    /\ watcherPending' = (watcherPending \/ watcher = "active")
    /\ UNCHANGED <<snapshot, adapter, watcher, client, unmounted, refetches,
                   dropped, pollFetches, delivery>>

\* variant: the query is re-created and re-subscribed on every change
VariablesWatcher_Resubscribe(newVariables) ==
    /\ calls' = calls \o
          <<Call("watchQuery", 0,
                 [query |-> Str("GetLeaderboard"),
                  variables |-> newVariables,
                  fetchPolicy |-> calls[1].arg.fetchPolicy]),
            Call("subscribe", observableQuery + 1, Undef)>>
    /\ observableQuery' = observableQuery + 1
    /\ subscription' = subscription + 1
    /\ open' = open \cup {subscription + 1}
    /\ queryVariables' = Append(queryVariables, newVariables)
    /\ polling' = polling

\* variant: the callback pushes the variables captured at construction
\* instead of its argument
VariablesWatcher_StaleClosure(newVariables) ==
    /\ IF observableQuery # 0 /\ newVariables # Undef
       THEN /\ calls' = Append(calls,
                               Call("setVariables", observableQuery,
                                    calls[1].arg.variables))
            /\ queryVariables' =
                   [queryVariables EXCEPT ![observableQuery] = calls[1].arg.variables]
       ELSE UNCHANGED <<calls, queryVariables>>
    /\ UNCHANGED <<adapter, open, polling>>

\* variant: no test for undefined, as in the earlier revision
\* (src/src/composables/useApolloQuery.ts)
VariablesWatcher_NoUndefinedGuard(newVariables) ==
    /\ IF observableQuery # 0
       THEN /\ calls' = Append(calls,
                               Call("setVariables", observableQuery, newVariables))
            /\ queryVariables' =
                   [queryVariables EXCEPT ![observableQuery] = newVariables]
       ELSE UNCHANGED <<calls, queryVariables>>
    /\ UNCHANGED <<adapter, open, polling>>

\* the callback given to watch()
VariablesWatcher(newVariables) ==
    /\ IF observableQuery # 0 /\ newVariables # Undef
       THEN /\ calls' = Append(calls,
                               Call("setVariables", observableQuery, newVariables))
            /\ queryVariables' =
                   [queryVariables EXCEPT ![observableQuery] = newVariables]
       ELSE UNCHANGED <<calls, queryVariables>>
    /\ UNCHANGED <<adapter, open, polling>>

\* Vue's scheduler runs the queued job: the getter () => varsOption.value is
\* read and, the watcher being deep, the callback gets the current value
WatcherJob ==
    /\ watcherPending
    /\ watcher = "active"
    /\ watcherPending' = FALSE
    /\ VariablesWatcher(options.variables.value)
    /\ UNCHANGED <<snapshot, options, watcher, varChanges, unmounted, refetches,
                   dropped, pollFetches, delivery>>

(* ------------------------------------------------------------- teardown *)
\* variant: only polling is stopped, the subscription is never released
OnUnmounted_NoUnsubscribe ==
    /\ calls' = calls
          \o (IF observableQuery # 0
              THEN <<Call("stopPolling", observableQuery, Undef)>> ELSE <<>>)
    /\ open' = open
    /\ polling' = IF observableQuery # 0 THEN polling \ {observableQuery} ELSE polling
    /\ UNCHANGED <<adapter, queryVariables>>

\* variant: the subscription is released but the poll timer keeps running
OnUnmounted_NoStopPolling ==
    /\ calls' = calls
          \o (IF subscription # 0
              THEN <<Call("unsubscribe", subscription, Undef)>> ELSE <<>>)
    /\ open' = IF subscription # 0 THEN open \ {subscription} ELSE open
    /\ polling' = polling
    /\ UNCHANGED <<adapter, queryVariables>>

\* variant: the two steps in the other order
OnUnmounted_StopPollingFirst ==
    /\ calls' = calls
          \o (IF observableQuery # 0
              THEN <<Call("stopPolling", observableQuery, Undef)>> ELSE <<>>)
          \o (IF subscription # 0
              THEN <<Call("unsubscribe", subscription, Undef)>> ELSE <<>>)
    /\ open' = IF subscription # 0 THEN open \ {subscription} ELSE open
    /\ polling' = IF observableQuery # 0 THEN polling \ {observableQuery} ELSE polling
    /\ UNCHANGED <<adapter, queryVariables>>

\* variant: teardown also sets the two handles to null
OnUnmounted_ClearsHandles ==
    /\ calls' = calls
          \o (IF subscription # 0
              THEN <<Call("unsubscribe", subscription, Undef)>> ELSE <<>>)
          \o (IF observableQuery # 0
              THEN <<Call("stopPolling", observableQuery, Undef)>> ELSE <<>>)
    /\ open' = IF subscription # 0 THEN open \ {subscription} ELSE open
    /\ polling' = IF observableQuery # 0 THEN polling \ {observableQuery} ELSE polling
    /\ observableQuery' = 0
    /\ subscription' = 0
    /\ UNCHANGED queryVariables

\* the callback given to onUnmounted()
OnUnmounted ==
    /\ calls' = calls
          \o (IF subscription # 0
              THEN <<Call("unsubscribe", subscription, Undef)>> ELSE <<>>)
          \o (IF observableQuery # 0
              THEN <<Call("stopPolling", observableQuery, Undef)>> ELSE <<>>)
    /\ open' = IF subscription # 0 THEN open \ {subscription} ELSE open
    /\ polling' = IF observableQuery # 0 THEN polling \ {observableQuery} ELSE polling
    /\ UNCHANGED <<adapter, queryVariables>>

\* the component unmounts: Vue stops the component's effect scope (which
\* stops the watcher and drops its queued job) and runs the onUnmounted hooks
Unmount ==
    /\ ~unmounted
    /\ unmounted' = TRUE
    /\ watcher' = IF watcher = "active" THEN "stopped" ELSE watcher
    /\ watcherPending' = FALSE
    /\ OnUnmounted
    /\ UNCHANGED <<snapshot, options, varChanges, refetches, dropped, pollFetches,
                   delivery>>

(* -------------------------------------------------------------- polling *)
\* a poll timer of the client fires and starts a fetch
PollTick ==
    /\ polling # {}
    /\ pollFetches < MaxPollTicks
    /\ pollFetches' = pollFetches + 1
    /\ UNCHANGED <<snapshot, adapter, reactive, client, unmounted, refetches,
                   dropped, delivery>>

(* ------------------------------------------------------------------ *)
Next ==
    \/ \E queryResult \in QueryResults : ClientNext(queryResult)
    \/ \E err \in TerminalErrors : ClientError(err)
    \/ Len(refetches) < MaxLifecycleRefetch /\ Refetch
    \/ \E i \in DOMAIN refetches : RefetchResume(i)
    \/ \E i \in DOMAIN refetches : \E queryResult \in FetchResults :
           FetchSucceeds(i, queryResult)
    \/ \E i \in DOMAIN refetches : FetchFails(i)
    \/ \E v \in {VarsA, VarsB, Undef} :
           varChanges < MaxLifecycleVarChanges /\ ChangeVariables(v)
    \/ WatcherJob
    \/ Unmount
    \/ PollTick

Spec == Init /\ [][Next]_vars

\* the constructor alone, over every combination of options
SpecConstruct == InitCall /\ [][Construct]_vars

(* ------------------------------------- the cache-and-network sequence *)
\* the first result of a cache-and-network query: what the cache holds for
\* the variables (nothing, or a complete result), with the network request
\* still in flight
CachedResult(cached) ==
    [loading |-> TRUE,
     dataState |-> IF cached = Undef THEN "empty" ELSE "complete",
     data |-> cached,
     error |-> Undef]

\* 1. "Return cached data immediately (if available)"
CacheResult(cached) ==
    /\ last.kind = "none"
    /\ ~dropped
    /\ ClientNext(CachedResult(cached))

\* the network request made after the cache was read is still in flight
NetworkInFlight == last.kind = "next" /\ last.value.loading

\* 3. "Update with network data when it arrives"
NetworkResult(queryResult) ==
    /\ NetworkInFlight
    /\ ~dropped
    /\ ClientNext(queryResult)

\* the network request fails and the observable terminates
NetworkError(err) ==
    /\ NetworkInFlight
    /\ ~dropped
    /\ ClientError(err)

\* App.vue's policy, no poll timer
CacheAndNetworkOptions ==
    {o \in UseQueryOptions :
        /\ o.fetchPolicy = Str("cache-and-network")
        /\ o.pollInterval \in {Undef, Num(0)}}

InitCacheAndNetwork ==
    /\ options \in CacheAndNetworkOptions
    /\ result = Construction(options).result
    /\ loading = Construction(options).loading
    /\ error = Construction(options).error
    /\ observableQuery = Construction(options).observableQuery
    /\ subscription = Construction(options).subscription
    /\ calls = Construction(options).calls
    /\ open = Construction(options).open
    /\ polling = Construction(options).polling
    /\ queryVariables = Construction(options).queryVariables
    /\ watcher = Construction(options).watcher
    /\ watcherPending = FALSE
    /\ unmounted = FALSE
    /\ refetches = <<>>
    /\ dropped = FALSE
    /\ pollFetches = 0
    /\ varChanges = 0
    /\ last = NoDelivery
    /\ pc = 0
    /\ rendered = NoRender

NextCacheAndNetwork ==
    \/ \E cached \in {Undef, Data1, Data2} : CacheResult(cached)
    \/ \E queryResult \in FetchResults : NetworkResult(queryResult)
    \/ \E err \in TerminalErrors : NetworkError(err)
    \/ Unmount

\* one adapter on a cache-and-network query, from construction through the
\* cache read to the network's answer
SpecCacheAndNetwork == InitCacheAndNetwork /\ [][NextCacheAndNetwork]_vars

\* the same adapter with a client that does answer: the cache read is
\* delivered, and the network request ends with a result or with an error
SpecCacheAndNetworkLive ==
    /\ SpecCacheAndNetwork
    /\ WF_vars(\E cached \in {Undef, Data1, Data2} : CacheResult(cached))
    /\ WF_vars(\/ \E queryResult \in FetchResults : NetworkResult(queryResult)
               \/ \E err \in TerminalErrors : NetworkError(err))

(* ------------------------------------------ a run of variable changes *)
\* the adapters created with a ref as variables
InitVariables == Init /\ IsReactiveReference(options.variables)

NextVariables ==
    \/ \E v \in {VarsA, VarsB, Undef} : ChangeVariables(v)
    \/ WatcherJob
    \/ \E err \in TerminalErrors : ClientError(err)
    \/ Unmount

\* the watcher's side of the adapter: the caller writes the ref several
\* times, Vue runs the watcher in between, the adapter may be torn down
SpecVariables == InitVariables /\ [][NextVariables]_vars

(* ------------------------------- next and error, one assignment at a time *)
\* rxjs calls next(queryResult); its first statement assigns loading.value
NextSetLoading(queryResult) ==
    /\ pc = 0
    /\ open # {}
    /\ last' = [kind |-> "next", value |-> queryResult]
    /\ loading' = queryResult.loading
    /\ pc' = 1
    /\ UNCHANGED <<result, error, rendered, adapter, reactive, client, unmounted,
                   refetches, dropped, pollFetches>>

\* the if / else on dataState assigns result.value
NextSetResult ==
    /\ pc = 1
    /\ result' = IF last.value.dataState = "complete"
                     \/ last.value.dataState = "streaming"
                  THEN last.value.data
                  ELSE Undef
    /\ pc' = 2
    /\ UNCHANGED <<loading, error, last, rendered, adapter, reactive, client,
                   unmounted, refetches, dropped, pollFetches>>

\* the last statement of next assigns error.value, and next returns
NextSetError ==
    /\ pc = 2
    /\ error' = last.value.error
    /\ pc' = 0
    /\ UNCHANGED <<result, loading, last, rendered, adapter, reactive, client,
                   unmounted, refetches, dropped, pollFetches>>

\* rxjs closes the subscriber and calls error(err); its first statement
\* assigns loading.value
ErrorSetLoading(err) ==
    /\ pc = 0
    /\ open # {}
    /\ last' = [kind |-> "error", value |-> err]
    /\ loading' = FALSE
    /\ open' = {}
    /\ pc' = 3
    /\ UNCHANGED <<result, error, rendered, adapter, reactive, calls, polling,
                   queryVariables, unmounted, refetches, dropped, pollFetches>>

\* the second statement of error assigns error.value, and error returns
ErrorSetError ==
    /\ pc = 3
    /\ error' = last.value
    /\ pc' = 0
    /\ UNCHANGED <<result, loading, last, rendered, adapter, reactive, client,
                   unmounted, refetches, dropped, pollFetches>>

(* ------------------------------------------------ the component's view *)
\* computed(() => result.value?.GetLeaderboard || [])
contributors(data) ==
    IF data = Undef THEN <<>> ELSE data.GetLeaderboard

\* variant: the list is preferred to the skeleton whenever there is one, and
\* the alert whenever there is an error and no list
Template_DataFirst(isLoading, data, err) ==
    IF Len(contributors(data)) > 0 THEN "list"
    ELSE IF err # Undef THEN "alert"
    ELSE IF isLoading THEN "skeleton"
    ELSE "no-commits"

\* the v-if / v-else chain of the template: which of the four blocks is
\* rendered ("nothing" if none of the conditions held)
Template(isLoading, data, err) ==
    IF isLoading THEN "skeleton"
    ELSE IF Len(contributors(data)) > 0 THEN "list"
    ELSE IF err # Undef THEN "alert"
    ELSE IF ~(Len(contributors(data)) > 0) THEN "no-commits"
    ELSE "nothing"

\* variant: the refs are read by a synchronous effect, run inside the
\* assignment that triggered it
Render_Sync ==
    /\ ~unmounted
    /\ rendered' = [kind |-> "read", result |-> result, loading |-> loading,
                    error |-> error, last |-> last,
                    view |-> Template(loading, result, error)]
    /\ rendered' # rendered
    /\ UNCHANGED <<snapshot, last, pc, adapter, reactive, client, unmounted,
                   refetches, dropped, pollFetches>>

\* the component's render reads loading, result (through contributors) and
\* error.  An assignment to a ref queues the render job; Vue flushes its queue
\* in a microtask, so the job runs once the running callback has returned
Render ==
    /\ pc = 0
    /\ ~unmounted
    /\ rendered' = [kind |-> "read", result |-> result, loading |-> loading,
                    error |-> error, last |-> last,
                    view |-> Template(loading, result, error)]
    /\ rendered' # rendered
    /\ UNCHANGED <<snapshot, last, pc, adapter, reactive, client, unmounted,
                   refetches, dropped, pollFetches>>

\* the options of App.vue's call
AppOptions ==
    [variables |-> Ref(VarsA),
     pollInterval |-> Undef,
     fetchPolicy |-> Str("cache-and-network")]

InitRender == Init /\ options = AppOptions

\* a callback runs to completion: nothing else of the component runs between
\* its statements
NextRender ==
    \/ \E queryResult \in QueryResults : NextSetLoading(queryResult)
    \/ NextSetResult
    \/ NextSetError
    \/ \E err \in TerminalErrors : ErrorSetLoading(err)
    \/ ErrorSetError
    \/ Render
    \/ pc = 0 /\ Unmount

\* the callbacks at the grain of their assignments, with the component's
\* render as the observer
SpecRender == InitRender /\ [][NextRender]_vars

(* --------------------------------------------- what the component shows *)
\* the results of the lifecycle, and complete results with an empty list
ViewResults ==
    QueryResults \cup [loading : BOOLEAN, dataState : {"complete"},
                       data : {NoCommits}, error : {Undef, Err1}]

NextView ==
    \/ \E queryResult \in ViewResults : ClientNext(queryResult)
    \/ \E err \in TerminalErrors : ClientError(err)
    \/ Render

\* App.vue: the adapter's snapshot as the client drives it, and the view the
\* template renders from it
SpecView == InitRender /\ [][NextView]_vars

(* ------------------------------------------- several refetches in flight *)
NextRefetch ==
    \/ Refetch
    \/ \E i \in DOMAIN refetches : RefetchResume(i)
    \/ \E i \in DOMAIN refetches : \E queryResult \in FetchResults :
           FetchSucceeds(i, queryResult)
    \/ \E i \in DOMAIN refetches : FetchFails(i)
    \/ \E queryResult \in QueryResults : ClientNext(queryResult)
    \/ \E err \in TerminalErrors : ClientError(err)
    \/ ChangeVariables(VarsB)
    \/ WatcherJob
    \/ Unmount

\* App.vue's adapter with refetch() called more than once; the selected
\* repository changes from a to b on the way
SpecRefetch == InitRender /\ [][NextRefetch]_vars

(* ================================================================== *)
(* Properties                                                          *)
(* ================================================================== *)

\* the request the adapter passed to watchQuery at construction
Request == calls[1].arg

\* subscriptions the adapter created and has not unsubscribed
Held ==
    {id \in 1..Count(calls, "subscribe") :
        \A i \in DOMAIN calls : ~(calls[i].op = "unsubscribe" /\ calls[i].on = id)}

TerminalErrorSeen == last.kind = "error"

(* C1, the state part: the adapter holds exactly one subscription from
   construction until teardown and none afterwards; watchQuery and subscribe
   are each called exactly once, as the first two calls.  As long as no
   terminal error has closed it, the held subscription is the one that
   receives notifications. *)
C1_State ==
    /\ Count(calls, "watchQuery") = 1
    /\ Count(calls, "subscribe") = 1
    /\ calls[1].op = "watchQuery"
    /\ calls[2].op = "subscribe"
    /\ ~unmounted => Cardinality(Held) = 1
    /\ unmounted => Held = {} /\ open = {}
    /\ (~unmounted /\ ~TerminalErrorSeen) => open = {subscription}

(* C1: C1_State holds in every state, and a torn-down adapter stays torn
   down. *)
C1_OneSubscription ==
    /\ []C1_State
    /\ [][unmounted => unmounted']_vars

C1_Witness ==
    /\ unmounted
    /\ last.kind = "next"
    /\ Len(refetches) > 0
    /\ Count(calls, "setVariables") > 0

(* C2: from teardown on no callback of the subscription runs: every step
   taken in a torn-down state leaves result, loading, error and the record
   of the last delivered notification as they were. *)
C2_NoDeliveryAfterTeardown ==
    [][unmounted =>
          /\ result' = result
          /\ loading' = loading
          /\ error' = error
          /\ last' = last]_vars

\* torn down with the subscription still open until then, and the client has
\* produced a notification since
C2_Witness ==
    /\ unmounted
    /\ ~TerminalErrorSeen
    /\ dropped
    /\ result # Undef

(* C3: after a delivery to next, loading is the emission's loading flag,
   error is the emission's error field, and data is the emission's data when
   its dataState is complete or streaming and undefined when it is partial or
   empty. *)
C3_NextSnapshot ==
    last.kind = "next" =>
        /\ loading = last.value.loading
        /\ error = last.value.error
        /\ last.value.dataState \in {"complete", "streaming"} =>
               result = last.value.data
        /\ last.value.dataState \in {"partial", "empty"} => result = Undef

\* a partial emission that carried data and an error field was delivered
C3_Witness ==
    /\ last.kind = "next"
    /\ last.value.dataState = "partial"
    /\ last.value.data = PartialData
    /\ last.value.error = Err1
    /\ result = Undef
    /\ error = Err1

(* C4: a terminal error delivered to the error callback leaves loading false
   and error equal to the received error; when no data was held before it
   (empty cache), the snapshot after it is {loading: false, data: undefined,
   error: the error}. *)
C4_TerminalError ==
    /\ [](last.kind = "error" => loading = FALSE /\ error = last.value)
    /\ [][(last'.kind = "error" /\ last.kind # "error" /\ result = Undef) =>
              /\ loading' = FALSE
              /\ result' = Undef
              /\ error' = last'.value]_vars

C4_Witness ==
    /\ last.kind = "error"
    /\ ~unmounted
    /\ loading = FALSE
    /\ result = Undef
    /\ error = ErrT

(* C5: a change of the variables ref is pushed with setVariables into the
   observable query created at construction: the query and subscription
   handles never change, watchQuery and subscribe are not called again, and
   once the watcher has run on a defined value that value has been passed to
   setVariables on query 1. *)
C5_SetVariablesSameQuery ==
    /\ observableQuery = 1
    /\ subscription = 1
    /\ Count(calls, "watchQuery") = 1
    /\ Count(calls, "subscribe") = 1
    /\ \A i \in DOMAIN calls : calls[i].op = "setVariables" => calls[i].on = 1
    /\ (watcher = "active" /\ varChanges > 0 /\ ~watcherPending
          /\ options.variables.value # Undef) =>
           /\ \E i \in DOMAIN calls :
                  calls[i] = Call("setVariables", 1, options.variables.value)
           /\ queryVariables[1] = options.variables.value

C5_Witness ==
    /\ ~unmounted
    /\ varChanges > 0
    /\ ~watcherPending
    /\ options.variables.value = VarsB
    /\ Count(calls, "setVariables") > 0
    /\ queryVariables = <<VarsB>>

(* C7: teardown makes both calls, unsubscribe on the subscription and then,
   next in the log, stopPolling on the observable query; outside teardown
   neither call is made, so no state has one without the other. *)
C7_UnsubscribeThenStopPolling ==
    /\ Count(calls, "unsubscribe") = (IF unmounted THEN 1 ELSE 0)
    /\ Count(calls, "stopPolling") = (IF unmounted THEN 1 ELSE 0)
    /\ unmounted =>
           \E i \in 1..(Len(calls) - 1) :
               /\ calls[i] = Call("unsubscribe", 1, Undef)
               /\ calls[i + 1] = Call("stopPolling", 1, Undef)

\* torn down while the poll timer was running
C7_Witness ==
    /\ unmounted
    /\ StartsPolling(Request)
    /\ calls[Len(calls)].op = "stopPolling"

(* C8: for an adapter created with a poll interval, in every torn-down state
   no poll timer runs, and no step from a torn-down state starts a poll fetch
   or delivers a notification. *)
C8_NoPollingAfterTeardown ==
    /\ []((HasKey(Request, "pollInterval") /\ unmounted) => polling = {})
    /\ [][(HasKey(Request, "pollInterval") /\ unmounted) =>
              /\ pollFetches' = pollFetches
              /\ last' = last]_vars

\* the timer had fired before teardown, and the client produced a
\* notification after it
C8_Witness ==
    /\ unmounted
    /\ StartsPolling(Request)
    /\ pollFetches > 0
    /\ dropped
    /\ ~TerminalErrorSeen

(* C9: the object passed to watchQuery has a pollInterval key exactly when
   the caller supplied a poll interval (0 included), then with the caller's
   number; the key is never there with an undefined value. *)
C9_PollIntervalKey ==
    calls # <<>> =>
        /\ HasKey(Request, "pollInterval") <=> options.pollInterval # Undef
        /\ HasKey(Request, "pollInterval") =>
               /\ Request.pollInterval # Undef
               /\ Request.pollInterval = options.pollInterval

\* constructed without a poll interval: the key is absent
C9_Witness ==
    /\ calls # <<>>
    /\ options.pollInterval = Undef
    /\ DOMAIN Request = {"query", "variables", "fetchPolicy"}

(* C10: the request carries the caller's fetch policy, for each of the five
   policies, and cache-first when the caller supplied none. *)
C10_FetchPolicyForwarded ==
    calls # <<>> =>
        /\ \A p \in FetchPolicies :
               options.fetchPolicy = Str(p) => Request.fetchPolicy = Str(p)
        /\ options.fetchPolicy = Undef => Request.fetchPolicy = Str("cache-first")

C10_Witness ==
    /\ calls # <<>>
    /\ options.fetchPolicy = Str("no-cache")
    /\ Request.fetchPolicy = Str("no-cache")

(* C11: the variables in the watchQuery request are the ref's current value
   when the caller passed a ref, the caller's mapping itself when the caller
   passed a static mapping (whatever its keys), and undefined when none were
   passed; a watcher is registered exactly in the ref case. *)
C11_EffectiveVariables ==
    calls # <<>> =>
        /\ options.variables = Undef => Request.variables = Undef
        /\ IsReactiveReference(options.variables) =>
               Request.variables = options.variables.value
        /\ IsStaticMapping(options.variables) =>
               Request.variables = options.variables
        /\ watcher = "active" <=> IsReactiveReference(options.variables)

(* C12: on a cache-and-network query whose cache held a complete result, in
   the state after the cache read and before anything derived from the
   network has been delivered, the adapter's data is already the cached
   value, hence non-empty. *)
C12_CachedDataBeforeNetwork ==
    (NetworkInFlight /\ last.value.data # Undef) =>
        /\ result = last.value.data
        /\ result \in {Data1, Data2}

\* the cache held Data2; the network has not answered yet
C12_Witness ==
    /\ ~unmounted
    /\ NetworkInFlight
    /\ last.value = CachedResult(Data2)
    /\ result = Data2
    /\ loading = TRUE

\* {loading: true, data: empty}, no error
LoadingSnapshot == loading = TRUE /\ result = Undef /\ error = Undef

\* the emission just delivered is a successful network response
SuccessDelivered ==
    /\ last'.kind = "next"
    /\ ~last'.value.loading
    /\ last'.value.dataState = "complete"
    /\ last'.value.error = Undef

(* C13: with variables {repo: "a"}, cache-and-network and an empty cache, the
   snapshot is {loading: true, data: empty, error: empty} from construction
   until the network answers (the read of the empty cache does not change
   it), and a successful response takes it in one step to {loading: false,
   data: the returned list}. *)
C13_SnapshotSequence ==
    /\ [](last.kind = "none" => LoadingSnapshot)
    /\ []((Request.variables = VarsA /\ last = [kind |-> "next",
                                                 value |-> CachedResult(Undef)])
             => LoadingSnapshot)
    /\ [][(/\ Request.variables = VarsA
           /\ last = [kind |-> "next", value |-> CachedResult(Undef)]
           /\ SuccessDelivered) =>
              /\ LoadingSnapshot
              /\ loading' = FALSE
              /\ result' = last'.value.data
              /\ result' \in {Data1, Data2}
              /\ error' = Undef]_vars

\* the list arrived after the read of an empty cache
C13_Witness ==
    /\ Request.variables = VarsA
    /\ options.variables = VarsA
    /\ ~unmounted
    /\ last.kind = "next"
    /\ last.value = [loading |-> FALSE, dataState |-> "complete",
                     data |-> Data2, error |-> Undef]
    /\ loading = FALSE
    /\ result = Data2
    /\ error = Undef

(* C14: result, loading and error change only in a step in which next or
   error received a notification: they keep their initial values until the
   first delivery, and every step that delivers nothing (a refetch() call,
   the resumption of its await, a failed fetch, a write to the variables ref,
   the watcher's setVariables, teardown, a poll tick) leaves all three
   unchanged. *)
C14_WrittenOnlyByCallbacks ==
    /\ [](last.kind = "none" => LoadingSnapshot)
    /\ [][last' = last =>
              /\ result' = result
              /\ loading' = loading
              /\ error' = error]_vars

\* data was delivered, then refetch() was called and settled, the variables
\* changed and were pushed, and the adapter was torn down
C14_Witness ==
    /\ unmounted
    /\ last.kind = "next"
    /\ result = Data1
    /\ loading = TRUE
    /\ Len(refetches) = 1
    /\ refetches[1].promise = "rejected"
    /\ calls[Len(calls) - 2].op = "setVariables"

(* C15: whatever the component's render has read is a whole snapshot: the
   initial one, or loading, data and error all as the last notification
   handed to next left them, or loading and error as the terminal error left
   them; never some fields of a notification whose callback was still
   running. *)
C15_NoTornRead ==
    rendered.kind = "read" =>
        /\ rendered.last.kind = "none" =>
               /\ rendered.loading = TRUE
               /\ rendered.result = Undef
               /\ rendered.error = Undef
        /\ rendered.last.kind = "next" =>
               /\ rendered.loading = rendered.last.value.loading
               /\ rendered.error = rendered.last.value.error
               /\ rendered.result =
                      (IF rendered.last.value.dataState \in {"complete", "streaming"}
                       THEN rendered.last.value.data
                       ELSE Undef)
        /\ rendered.last.kind = "error" =>
               /\ rendered.loading = FALSE
               /\ rendered.error = rendered.last.value

\* the render holds the snapshot of one notification while next is half way
\* through the following one, with loading already overwritten
C15_Witness ==
    /\ rendered.kind = "read"
    /\ rendered.last.kind = "next"
    /\ rendered.result = Data2
    /\ rendered.loading = FALSE
    /\ pc = 1
    /\ last # rendered.last
    /\ loading = TRUE
    /\ result = Data2

(* C16: an error carried by an emission is not fatal.  After any delivery to
   next, error is that emission's error field, so an emission with an error
   sets it and a later one without an error clears it; the emission with the
   error still had its loading flag and its data applied; and unless the
   adapter was torn down the subscription still receives notifications. *)
C16_EmissionErrorNotFatal ==
    last.kind = "next" =>
        /\ error = last.value.error
        /\ last.value.error # Undef =>
               /\ loading = last.value.loading
               /\ result = (IF last.value.dataState \in {"complete", "streaming"}
                            THEN last.value.data
                            ELSE Undef)
        /\ ~unmounted => open = {subscription}

\* the last emission carried both data and an error
C16_Witness ==
    /\ ~unmounted
    /\ last.kind = "next"
    /\ last.value.error = Err1
    /\ last.value.data = Data1
    /\ error = Err1
    /\ result = Data1
    /\ open = {1}

(* C17: once the error callback has run, loading is false and error is the
   terminal error, and no later step (an emission of the client, the result
   of a refetch, a setVariables after a variable change, teardown) changes
   result, loading, error or delivers another notification. *)
C17_NothingAfterTerminalError ==
    [][last.kind = "error" =>
          /\ loading = FALSE
          /\ error = last.value
          /\ last' = last
          /\ result' = result
          /\ loading' = loading
          /\ error' = error]_vars

\* after the terminal error a refetch was made whose result reached nobody,
\* the variables were changed and pushed, and the client produced an emission
C17_Witness ==
    /\ ~unmounted
    /\ last.kind = "error"
    /\ dropped
    /\ Len(refetches) = 1
    /\ refetches[1].fetch = "resolved"
    /\ ~refetches[1].delivered
    /\ calls[Len(calls)].op = "setVariables"
    /\ loading = FALSE
    /\ error = ErrT

(* C18: the adapter does not retry.  watchQuery and subscribe are called once
   each, at construction; the client's refetch is called once per refetch()
   call of the caller, and setVariables at most once per write to the
   variables ref; and a step in which a callback received a notification or
   the error field changed makes no call on the client at all. *)
C18_NoRetry ==
    /\ [](/\ Count(calls, "watchQuery") = 1
          /\ Count(calls, "subscribe") = 1
          /\ Count(calls, "refetch") = Len(refetches)
          /\ Count(calls, "setVariables") <= varChanges)
    /\ [][(last' # last \/ error' # error) => calls' = calls]_vars

\* a terminal error was delivered and the client went on producing results,
\* yet the only calls ever made are the two of construction
C18_Witness ==
    /\ ~unmounted
    /\ last.kind = "error"
    /\ error = ErrT
    /\ dropped
    /\ Len(calls) = 2
    /\ refetches = <<>>

\* the watcher is installed, has seen a change and has nothing queued
WatcherHasRun == watcher = "active" /\ varChanges > 0 /\ ~watcherPending

(* C19 as stated: once the watcher has run, the variables the observable
   query holds equal the current value of the reference, whatever that
   value is. *)
C19_NeverStale ==
    WatcherHasRun => queryVariables[1] = options.variables.value

(* C19, amended: each run of the watcher on a defined value appends one
   setVariables call with the value the reference has at that moment, so the
   calls are in the order the changes were observed; once the watcher has run
   and the reference holds a defined value, the latest setVariables call
   carries that value and the query holds it.  A run on undefined calls
   nothing and leaves the query on the variables it had. *)
C19_PushedInOrder ==
    /\ []((WatcherHasRun /\ options.variables.value # Undef) =>
             /\ queryVariables[1] = options.variables.value
             /\ \E i \in DOMAIN calls :
                    /\ calls[i] = Call("setVariables", 1, options.variables.value)
                    /\ \A j \in DOMAIN calls :
                           j > i => calls[j].op # "setVariables")
    /\ [][(watcherPending /\ ~watcherPending' /\ ~unmounted') =>
              IF options.variables.value # Undef
              THEN /\ calls' = Append(calls,
                          Call("setVariables", 1, options.variables.value))
                   /\ queryVariables' = <<options.variables.value>>
              ELSE /\ calls' = calls
                   /\ queryVariables' = queryVariables]_vars

\* two changes, each seen by the watcher: b was pushed, then a
C19_Witness ==
    /\ WatcherHasRun
    /\ Len(calls) = 4
    /\ calls[3] = Call("setVariables", 1, VarsB)
    /\ calls[4] = Call("setVariables", 1, VarsA)
    /\ options.variables.value = VarsA
    /\ queryVariables = <<VarsA>>

\* some refetch() promise is not settled yet
RefetchPending == \E i \in DOMAIN refetches : refetches[i].promise = "pending"

(* C20: a pending refetch() holds up nothing but its caller.  No notification
   is lost while the subscription is open, and every step taken while a
   refetch() promise is unsettled has its usual effect: a notification to
   next or error is applied in full, teardown releases the subscription and
   stops polling, the watcher pushes the changed variables, and a further
   refetch() starts another fetch; the last three leave the snapshot alone. *)
C20_RefetchSuspendsOnlyCaller ==
    /\ [](dropped => (unmounted \/ last.kind = "error"))
    /\ [][RefetchPending =>
              /\ (last' # last /\ last'.kind = "next") =>
                     /\ loading' = last'.value.loading
                     /\ error' = last'.value.error
                     /\ result' =
                            (IF last'.value.dataState \in {"complete", "streaming"}
                             THEN last'.value.data
                             ELSE Undef)
                     /\ open' = open
              /\ (last' # last /\ last'.kind = "error") =>
                     /\ loading' = FALSE
                     /\ error' = last'.value
                     /\ result' = result
                     /\ open' = {}
              /\ (~unmounted /\ unmounted') =>
                     /\ calls' = calls \o <<Call("unsubscribe", 1, Undef),
                                            Call("stopPolling", 1, Undef)>>
                     /\ open' = {}
                     /\ polling' = {}
                     /\ UNCHANGED snapshot
              /\ (watcherPending /\ ~watcherPending' /\ ~unmounted'
                    /\ options.variables.value # Undef) =>
                     /\ calls' = Append(calls,
                            Call("setVariables", 1, options.variables.value))
                     /\ queryVariables' = <<options.variables.value>>
                     /\ open' = open
                     /\ UNCHANGED snapshot
              /\ Len(refetches') > Len(refetches) =>
                     /\ calls' = Append(calls, Call("refetch", 1, Undef))
                     /\ refetches'[Len(refetches')].promise = "pending"
                     /\ open' = open
                     /\ UNCHANGED snapshot]_vars

\* with the first refetch() still pending, a second one was made, the changed
\* variables were pushed, the adapter was torn down, and both promises are
\* still unsettled; the snapshot holds an emission delivered on the way
C20_Witness ==
    /\ Len(refetches) = 2
    /\ refetches[1].promise = "pending"
    /\ refetches[2].promise = "pending"
    /\ Len(calls) = 7
    /\ calls[3].op = "refetch"
    /\ calls[4].op = "refetch"
    /\ calls[5].op = "setVariables"
    /\ calls[6].op = "unsubscribe"
    /\ unmounted
    /\ last.kind = "next"
    /\ result = Data2

(* C21: whenever the snapshot the component rendered holds a non-empty
   contributor list, the view is the list and not the skeleton, also when
   loading is true. *)
C21_ListPreferredToSkeleton ==
    (rendered.kind = "read" /\ Len(contributors(rendered.result)) > 0) =>
        rendered.view = "list"

(* C22: whenever the snapshot the component rendered has a non-empty error
   and no data, the view is the error alert, neither the skeleton nor the
   "No commits" message. *)
C22_AlertWhenErrorWithoutData ==
    (rendered.kind = "read" /\ rendered.error # Undef
        /\ rendered.result = Undef) =>
        rendered.view = "alert"

(* C29: for every snapshot the component renders, the view is exactly one of
   the four blocks, chosen in this order: the skeleton if loading is true;
   otherwise the list if data holds a non-empty GetLeaderboard list;
   otherwise the alert if error is non-empty; otherwise the "No commits for
   now." message. *)
C29_ViewPriority ==
    rendered.kind = "read" =>
        /\ rendered.view \in {"skeleton", "list", "alert", "no-commits"}
        /\ rendered.view = "skeleton" <=> rendered.loading
        /\ rendered.view = "list" <=>
               /\ ~rendered.loading
               /\ rendered.result # Undef
               /\ rendered.result.GetLeaderboard # <<>>
        /\ rendered.view = "alert" <=>
               /\ ~rendered.loading
               /\ (rendered.result = Undef
                     \/ rendered.result.GetLeaderboard = <<>>)
               /\ rendered.error # Undef
        /\ rendered.view = "no-commits" <=>
               /\ ~rendered.loading
               /\ (rendered.result = Undef
                     \/ rendered.result.GetLeaderboard = <<>>)
               /\ rendered.error = Undef

\* an empty list came with an error and the component rendered the alert
C29_Witness ==
    /\ rendered.kind = "read"
    /\ rendered.loading = FALSE
    /\ rendered.result = NoCommits
    /\ rendered.error = Err1
    /\ rendered.view = "alert"

(* C23: the step that delivers a terminal error leaves result as it was,
   whatever the snapshot before it: data of an earlier complete emission
   stays next to the error. *)
C23_TerminalErrorKeepsData ==
    [][(last' # last /\ last'.kind = "error") =>
          /\ result' = result
          /\ loading' = FALSE
          /\ error' = last'.value]_vars

\* the terminal error arrived when a list was held
C23_Witness ==
    /\ last.kind = "error"
    /\ result = Data2
    /\ error = ErrT
    /\ loading = FALSE

(* C24: the handle of the observable query created at construction is never
   cleared or replaced: every refetch() call, before and after teardown,
   calls refetch on query 1 and starts a fetch, and watchQuery and subscribe
   are never called again. *)
C24_HandleNeverCleared ==
    /\ observableQuery = 1
    /\ subscription = 1
    /\ Count(calls, "watchQuery") = 1
    /\ Count(calls, "subscribe") = 1
    /\ Count(calls, "refetch") = Len(refetches)
    /\ \A i \in DOMAIN calls : calls[i].op = "refetch" => calls[i].on = 1
    /\ \A i \in DOMAIN refetches : refetches[i].fetch # "none"

\* refetch() was called after teardown and its fetch is in flight
C24_Witness ==
    /\ unmounted
    /\ calls[Len(calls)] = Call("refetch", 1, Undef)
    /\ calls[Len(calls) - 1].op = "stopPolling"
    /\ refetches[Len(refetches)].fetch = "pending"

(* C25: when the fetch of a refetch fails, the promise refetch() returned
   rejects (it never resolves instead), and the failing and the settling
   steps write none of result, loading, error: a step that delivers no
   notification leaves the error field, and the rest of the snapshot, as it
   was. *)
C25_RefetchFailurePropagates ==
    /\ [](\A i \in DOMAIN refetches :
             /\ refetches[i].fetch = "rejected" =>
                    refetches[i].promise \in {"pending", "rejected"}
             /\ refetches[i].promise = "rejected" =>
                    refetches[i].fetch = "rejected")
    /\ [][(refetches' # refetches /\ last' = last) =>
              /\ result' = result
              /\ loading' = loading
              /\ error' = error]_vars

\* a refetch failed and its promise rejected, while the snapshot still shows
\* the list of an earlier emission and no error
C25_Witness ==
    /\ ~unmounted
    /\ Len(refetches) = 1
    /\ refetches[1].fetch = "rejected"
    /\ refetches[1].promise = "rejected"
    /\ last.kind = "next"
    /\ result = Data1
    /\ error = Undef

(* C26: setVariables is only ever called with a defined value, and the run
   of the watcher on a reference that now holds undefined calls nothing and
   leaves the observable query on the variables it had. *)
C26_UndefinedNotPushed ==
    /\ [](\A i \in DOMAIN calls :
             calls[i].op = "setVariables" => calls[i].arg # Undef)
    /\ [][(watcherPending /\ ~watcherPending' /\ ~unmounted'
              /\ options.variables.value = Undef) =>
              /\ calls' = calls
              /\ queryVariables' = queryVariables]_vars

\* b was pushed, then the reference was set to undefined and the watcher ran:
\* the query is still on b
C26_Witness ==
    /\ WatcherHasRun
    /\ varChanges = 2
    /\ options.variables.value = Undef
    /\ Count(calls, "setVariables") = 1
    /\ queryVariables = <<VarsB>>

(* C27: loading is true as long as nothing has been delivered (so for ever,
   if nothing ever is); a delivered emission with loading = false, or a
   terminal error, leaves it false; and with a client that does deliver its
   answer, loading eventually becomes false unless the adapter is torn down
   first, after which loading never changes. *)
C27_LoadingEventuallyFalse ==
    /\ [](last.kind = "none" => loading = TRUE)
    /\ [](((last.kind = "next" /\ ~last.value.loading) \/ last.kind = "error")
             => loading = FALSE)
    /\ [][unmounted => loading' = loading]_vars
    /\ <>(loading = FALSE \/ unmounted)

\* the network answered an adapter that was still mounted
C27_Witness ==
    /\ ~unmounted
    /\ last.kind = "next"
    /\ ~last.value.loading
    /\ last.value.dataState = "complete"
    /\ loading = FALSE
    /\ result = Data1

(* C28: an adapter created with a static mapping, or without variables,
   never calls setVariables, and its observable query holds the variables of
   the watchQuery request for its whole life. *)
C28_StaticNeverPushed ==
    ~IsReactiveReference(options.variables) =>
        /\ Count(calls, "setVariables") = 0
        /\ queryVariables = <<Request.variables>>
        /\ ~watcherPending

\* a static mapping, after emissions, a refetch and teardown
C28_Witness ==
    /\ options.variables = VarsA
    /\ unmounted
    /\ last.kind = "next"
    /\ Len(refetches) = 1
    /\ refetches[1].promise = "resolved"
    /\ queryVariables = <<VarsA>>
====
